---- MODULE Spec2Model ----
(***************************************************************************)
(* The conversation-state and report-export pipeline of bot.py.            *)
(*                                                                         *)
(* Texts are sequences of one-character strings, so that the substring     *)
(* tests of the code ('1.' in content) are computed, not assumed.          *)
(* Every handler is an asyncio task: the code between two awaits runs      *)
(* atomically and is one action; a task's position is its pc.              *)
(***************************************************************************)
EXTENDS Integers, Sequences, FiniteSets, TLC

(***************************************************************************)
(* Bounds of the model.                                                    *)
(***************************************************************************)
\* the configured MAX_HISTORY_MESSAGES ranges over 0..MaxLimit
MaxLimit == 2
\* updates (messages and commands of all users) received in one run
MaxUpdates == 2
\* handler tasks that may be suspended at the same time
NumSlots == 2
\* turns of a history handed to export_to_excel
MaxHistLen == 3
\* lines of a report handed to the parse
MaxPoints == 3
\* user turns that precede the report in a history scanned for the name
MaxNameTurns == 2
\* lines of a reply handed to send_long_message
MaxReplyLines == 3

\* Python's None: no text is equal to it
None == <<"None">>

Users == {1, 2}
Slots == 1..NumSlots

\* what a user may type, dictate or write as a photo caption
UserTexts == { <<"h", "i">>, <<"1", ".", "8", ".">> }
\* the caption of a photo (None: no caption)
Captions == { None, <<"h", "i">> }
\* what the completion service may answer
Answers == { <<"o", "k">>, <<"1", ".", "a", "\n", "8", ".", "b">> }

SYSTEM_PROMPT == <<"S">>

\* send_long_message: the ceiling of one message and the length at which a
\* part is closed
MAX_MESSAGE_LENGTH == 4096
PART_LIMIT == 4000

VARIABLES
    MAX_HISTORY_MESSAGES,  \* the configured history limit
    user_conversations,    \* the defaultdict: user id -> list of turns
    tasks,                 \* the suspended handler of each slot
    nupdates,              \* updates dispatched so far (the arrival numbers)
    files,                 \* the working directory: file name -> what was saved
    turns_log,             \* history variable: per user, every turn appended
                           \* since the user's last clear
    last_export,           \* history variable: the last call of export_to_excel,
                           \* the history it read and what it returned
    ended                  \* history variable: the last end of a turn handler
                           \* (text, voice, photo, export) other than a plain
                           \* return: "untranscribed" (a voice message answered
                           \* with the failure message), "raised" (an exception
                           \* left the handler), "none" so far

vars == <<MAX_HISTORY_MESSAGES, user_conversations, tasks, nupdates, files,
          turns_log, last_export, ended>>

(***************************************************************************)
(* Python's list and str primitives.                                       *)
(***************************************************************************)
Min(a, b) == IF a < b THEN a ELSE b
Max(a, b) == IF a > b THEN a ELSE b

\* a slice that keeps the head of the list instead of its tail
SliceFrom_head(s, start) ==
    IF start < 0 THEN SubSeq(s, 1, Min(-start, Len(s))) ELSE SubSeq(s, 1, Len(s) - Min(start, Len(s)))

\* s[start:] for any integer start (a negative start counts from the end)
SliceFrom(s, start) ==
    LET begin == IF start < 0 THEN Max(Len(s) + start, 0) ELSE Min(start, Len(s))
    IN  SubSeq(s, begin + 1, Len(s))

\* sub in s, for strings
Contains(s, sub) ==
    \E i \in 0..(Len(s) - Len(sub)) : SubSeq(s, i + 1, i + Len(sub)) = sub

(***************************************************************************)
(* Characters.  The module is ASCII: a Cyrillic letter of the source is    *)
(* written as a Latin letter (z o v u t for the five letters of the first  *)
(* trigger word, q for ya, c for che, w for tse, x for the soft sign, y for *)
(* yery, e for both e and e-oborotnoye), one character each.               *)
(***************************************************************************)
LowerCase == <<"a", "b", "c", "d", "e", "f", "g", "h", "i", "j", "k", "l", "m",
               "n", "o", "p", "q", "r", "s", "t", "u", "v", "w", "x", "y", "z">>
UpperCase == <<"A", "B", "C", "D", "E", "F", "G", "H", "I", "J", "K", "L", "M",
               "N", "O", "P", "Q", "R", "S", "T", "U", "V", "W", "X", "Y", "Z">>
\* the characters of the module's alphabet that str.split(), str.strip()
\* and \s take for whitespace: space, \t, \n, \v, \f, \r and the four
\* separators \x1c..\x1f
Whitespace == {" ", "\n", "\t", "\r", "\f", "", "", "", "", ""}

IsUpperChar(c) == \E i \in 1..Len(UpperCase) : UpperCase[i] = c
IsLowerChar(c) == \E i \in 1..Len(LowerCase) : LowerCase[i] = c
IsAlphaChar(c) == IsUpperChar(c) \/ IsLowerChar(c)

LowerChar(c) ==
    IF IsUpperChar(c) THEN LowerCase[CHOOSE i \in 1..Len(UpperCase) : UpperCase[i] = c]
    ELSE c
UpperChar(c) ==
    IF IsLowerChar(c) THEN UpperCase[CHOOSE i \in 1..Len(LowerCase) : LowerCase[i] = c]
    ELSE c

\* str.lower(), str.upper()
lower(s) == [i \in 1..Len(s) |-> LowerChar(s[i])]
upper(s) == [i \in 1..Len(s) |-> UpperChar(s[i])]

\* str.isalpha(): not empty and letters only
isalpha(s) == Len(s) > 0 /\ \A i \in 1..Len(s) : IsAlphaChar(s[i])

\* str.split(): the maximal runs of characters that are not whitespace
RECURSIVE SplitFrom(_, _, _)
SplitFrom(s, i, word) ==
    IF i > Len(s) THEN (IF word = <<>> THEN <<>> ELSE <<word>>)
    ELSE IF s[i] \in Whitespace
         THEN (IF word = <<>> THEN <<>> ELSE <<word>>) \o SplitFrom(s, i + 1, <<>>)
         ELSE SplitFrom(s, i + 1, Append(word, s[i]))
split(s) == SplitFrom(s, 1, <<>>)

\* str.strip()
strip(s) ==
    LET inner == {i \in 1..Len(s) : s[i] \notin Whitespace}
    IN  IF inner = {} THEN <<>>
        ELSE SubSeq(s, CHOOSE i \in inner : \A j \in inner : i <= j,
                       CHOOSE i \in inner : \A j \in inner : j <= i)

\* user_conversations[user_id] on the defaultdict: a missing key is inserted
\* with an empty list
defaultdict_getitem(uc, user_id) ==
    IF user_id \in DOMAIN uc THEN uc ELSE uc @@ (user_id :> <<>>)

Turn(role, content) == [role |-> role, content |-> content]

(***************************************************************************)
(* HistoryStore                                                            *)
(***************************************************************************)
\* the append without the truncation
add_to_history_unbounded(uc, user_id, role, content) ==
    LET uc1 == defaultdict_getitem(uc, user_id)
    IN  [uc1 EXCEPT ![user_id] = Append(@, Turn(role, content))]

\* one list shared by all keys: the turn shows in every user's history
add_to_history_shared(uc, user_id, role, content) ==
    LET uc1 == defaultdict_getitem(uc, user_id)
    IN  [v \in DOMAIN uc1 |->
            SliceFrom(Append(uc1[v], Turn(role, content)),
                      -Max(MAX_HISTORY_MESSAGES, 1))]

\* a truncation that keeps the appended turn only
add_to_history_restart(uc, user_id, role, content) ==
    LET uc1 == defaultdict_getitem(uc, user_id)
        appended == Append(uc1[user_id], Turn(role, content))
    IN  IF Len(appended) > MAX_HISTORY_MESSAGES /\ MAX_HISTORY_MESSAGES >= 1
        THEN [uc1 EXCEPT ![user_id] = <<Turn(role, content)>>]
        ELSE [uc1 EXCEPT ![user_id] = appended]

add_to_history(uc, user_id, role, content) ==
    LET uc1 == defaultdict_getitem(uc, user_id)
        appended == Append(uc1[user_id], Turn(role, content))
    IN  IF Len(appended) > MAX_HISTORY_MESSAGES
        THEN [uc1 EXCEPT ![user_id] = SliceFrom(appended, -MAX_HISTORY_MESSAGES)]
        ELSE [uc1 EXCEPT ![user_id] = appended]

\* a clear that drops the oldest turn only
clear_history_oldest(uc, user_id) ==
    LET uc1 == defaultdict_getitem(uc, user_id)
    IN  [uc1 EXCEPT ![user_id] = SliceFrom(@, 1)]

clear_history(uc, user_id) ==
    IF user_id \in DOMAIN uc
    THEN [uc EXCEPT ![user_id] = <<>>]
    ELSE uc @@ (user_id :> <<>>)

\* the list get_conversation_history returns
get_conversation_history(uc, user_id) == defaultdict_getitem(uc, user_id)[user_id]

(***************************************************************************)
(* Handler tasks                                                           *)
(***************************************************************************)
IdleTask ==
    [pc |-> "idle", user |-> 0, text |-> <<>>, seq |-> 0, request |-> <<>>,
     file |-> None, sent |-> <<>>]

NoExport == [user |-> 0, report |-> None, path |-> None]

FreeSlots == {p \in Slots : tasks[p].pc = "idle"}
\* a new update is handled by the lowest free slot
NextSlot == CHOOSE p \in FreeSlots : \A q \in FreeSlots : p <= q

Init ==
    /\ MAX_HISTORY_MESSAGES \in 0..MaxLimit
    /\ user_conversations = <<>>
    /\ tasks = [p \in Slots |-> IdleTask]
    /\ nupdates = 0
    /\ files = <<>>
    /\ turns_log = [u \in Users |-> <<>>]
    /\ last_export = NoExport
    /\ ended = "none"

\* an update arrives
Arrive ==
    /\ nupdates < MaxUpdates
    /\ nupdates' = nupdates + 1

\* the handler of the arriving update runs to its first await and stays
\* suspended there, at pc
Suspend(u, text, pc) ==
    /\ Arrive
    /\ FreeSlots # {}
    /\ tasks' = [tasks EXCEPT ![NextSlot] =
                    [IdleTask EXCEPT !.pc = pc, !.user = u, !.text = text,
                                     !.seq = nupdates + 1]]

\* seq: the arrival number of the update whose get_llm_response call
\* appended the turn, 0 for the note of a photo
Logged(log, u, role, content, seq) ==
    [log EXCEPT ![u] = Append(@, [role |-> role, content |-> content, seq |-> seq])]

(***************************************************************************)
(* The sends that end a handler.  A handler that awaits message.answer is  *)
(* suspended at one of four places: "answer" (the reply, or the error      *)
(* message after a failed completion, inside the try block),               *)
(* "failure_answer" (the failure message of a voice message that was not   *)
(* transcribed, inside the try block), "refusal" (the refusal of an        *)
(* export, outside every try block) and "error_answer" (the error message  *)
(* of an except branch or of an export, which nothing guards).             *)
(***************************************************************************)
GuardedSends == {"answer", "failure_answer"}
BareSends == {"refusal", "error_answer"}

\* message.answer returned: the handler returns
message_answer_returned(p) ==
    /\ tasks[p].pc \in GuardedSends \cup BareSends
    /\ tasks' = [tasks EXCEPT ![p] = IdleTask]
    /\ ended' = IF tasks[p].pc = "failure_answer" THEN "untranscribed" ELSE ended
    /\ UNCHANGED <<MAX_HISTORY_MESSAGES, user_conversations, nupdates, files, turns_log,
                   last_export>>

\* message.answer raised where nothing catches it: the exception leaves the
\* handler
message_answer_raised(p) ==
    /\ tasks[p].pc \in BareSends
    /\ tasks' = [tasks EXCEPT ![p] = IdleTask]
    /\ ended' = "raised"
    /\ UNCHANGED <<MAX_HISTORY_MESSAGES, user_conversations, nupdates, files, turns_log,
                   last_export>>

(***************************************************************************)
(* /start, the next-student button, /clear, /history.  Each clears (or     *)
(* reads) the history before its first await; the messages it then sends   *)
(* touch no state of the program.                                          *)
(***************************************************************************)
cmd_start(u) ==
    /\ Arrive
    /\ user_conversations' = clear_history(user_conversations, u)
    /\ turns_log' = [turns_log EXCEPT ![u] = <<>>]
    /\ UNCHANGED <<MAX_HISTORY_MESSAGES, tasks, files, last_export, ended>>

handle_clear_history(u) ==
    /\ Arrive
    /\ user_conversations' = clear_history(user_conversations, u)
    /\ turns_log' = [turns_log EXCEPT ![u] = <<>>]
    /\ UNCHANGED <<MAX_HISTORY_MESSAGES, tasks, files, last_export, ended>>

cmd_clear(u) ==
    /\ Arrive
    /\ user_conversations' = clear_history(user_conversations, u)
    /\ turns_log' = [turns_log EXCEPT ![u] = <<>>]
    /\ UNCHANGED <<MAX_HISTORY_MESSAGES, tasks, files, last_export, ended>>

cmd_history(u) ==
    /\ Arrive
    /\ user_conversations' = defaultdict_getitem(user_conversations, u)
    /\ UNCHANGED <<MAX_HISTORY_MESSAGES, tasks, files, turns_log, last_export, ended>>

(***************************************************************************)
(* get_llm_response                                                        *)
(***************************************************************************)
\* a request built from the history as it was before the user turn
llm_messages_stale(uc, user_id) ==
    <<Turn("system", SYSTEM_PROMPT)>> \o
    get_conversation_history(user_conversations, user_id)

\* messages = [system prompt] + conversation_history
llm_messages(uc, user_id) ==
    <<Turn("system", SYSTEM_PROMPT)>> \o get_conversation_history(uc, user_id)

\* up to the await of session.post: the user turn is appended and the
\* request is built from the history as it then is
get_llm_response_call(p, user_message) ==
    LET u == tasks[p].user
        uc1 == add_to_history(user_conversations, u, "user", user_message)
    IN  /\ user_conversations' = uc1
        /\ turns_log' = Logged(turns_log, u, "user", user_message, tasks[p].seq)
        /\ tasks' = [tasks EXCEPT ![p].pc = "llm_wait", ![p].text = user_message,
                                  ![p].request = llm_messages(uc1, u)]

\* status 200 and a body holding choices[0].message.content: the answer is
\* appended and returned, and the handler awaits the send of it (an answer
\* of at most MAX_MESSAGE_LENGTH characters: send_long_message sends it as
\* it is)
get_llm_response_ok(p, answer) ==
    /\ tasks[p].pc = "llm_wait"
    /\ Len(answer) <= MAX_MESSAGE_LENGTH
    /\ user_conversations' =
           add_to_history(user_conversations, tasks[p].user, "assistant", answer)
    /\ turns_log' = Logged(turns_log, tasks[p].user, "assistant", answer,
                           tasks[p].seq)
    /\ tasks' = [tasks EXCEPT ![p].pc = "answer"]
    /\ UNCHANGED <<MAX_HISTORY_MESSAGES, nupdates, files, last_export, ended>>

LLMFailures == {"exception", "status", "malformed"}

\* a failure path that takes the user turn back out of the history
get_llm_response_fail_rollback(p, failure) ==
    /\ tasks[p].pc = "llm_wait"
    /\ user_conversations' =
           [user_conversations EXCEPT ![tasks[p].user] = SubSeq(@, 1, Len(@) - 1)]
    /\ tasks' = [tasks EXCEPT ![p].pc = "answer"]
    /\ UNCHANGED <<MAX_HISTORY_MESSAGES, nupdates, files, turns_log, last_export, ended>>

\* a network exception, a status other than 200, or a body without the
\* expected keys: None is returned, and the handler awaits the send of an
\* error message (of two, one after the other, in handle_voice)
get_llm_response_fail(p, failure) ==
    /\ tasks[p].pc = "llm_wait"
    /\ tasks' = [tasks EXCEPT ![p].pc = "answer"]
    /\ UNCHANGED <<MAX_HISTORY_MESSAGES, user_conversations, nupdates, files, turns_log,
                   last_export, ended>>

(***************************************************************************)
(* send_long_message                                                       *)
(***************************************************************************)
DigitChars == <<"0", "1", "2", "3", "4", "5", "6", "7", "8", "9">>

\* str(n) for a natural number
RECURSIVE str(_)
str(n) ==
    IF n < 10 THEN <<DigitChars[n + 1]>>
    ELSE str(n \div 10) \o <<DigitChars[(n % 10) + 1]>>

\* text.split('\n')
split_newline(text) ==
    LET breaks == {i \in 1..Len(text) : text[i] = "\n"}
        count == Cardinality(breaks)
        break(j) == CHOOSE i \in breaks : Cardinality({x \in breaks : x <= i}) = j
    IN  [j \in 1..(count + 1) |->
            SubSeq(text, IF j = 1 THEN 1 ELSE break(j - 1) + 1,
                         IF j = count + 1 THEN Len(text) ELSE break(j) - 1)]

\* the loop over the lines that fills parts, and the append after it
RECURSIVE message_parts(_, _, _, _)
message_parts(lines, i, current_part, parts) ==
    IF i > Len(lines)
    THEN (IF current_part # <<>> THEN Append(parts, current_part) ELSE parts)
    ELSE IF Len(current_part) + Len(lines[i]) + 1 <= PART_LIMIT
         THEN message_parts(lines, i + 1, current_part \o lines[i] \o <<"\n">>, parts)
         ELSE message_parts(lines, i + 1, lines[i] \o <<"\n">>,
                            IF current_part # <<>> THEN Append(parts, current_part)
                            ELSE parts)

\* the label of part i of n ("D" for the page emoji, "Casty" for the word
\* of five letters)
part_prefix(i, n) ==
    IF n > 1
    THEN <<"D", " ", "C", "a", "s", "t", "y", " ">> \o str(i) \o <<"/">> \o str(n)
         \o <<":", "\n", "\n">>
    ELSE <<>>

\* the messages send_long_message hands to message.answer, in order
send_long_message_messages(text) ==
    IF Len(text) <= MAX_MESSAGE_LENGTH THEN <<text>>
    ELSE LET parts == message_parts(split_newline(text), 1, <<>>, <<>>)
         IN  [i \in 1..Len(parts) |-> part_prefix(i, Len(parts)) \o parts[i]]

\* status 200 with an answer longer than MAX_MESSAGE_LENGTH: the answer is
\* appended and returned, and the handler enters the loop of
\* send_long_message over the parts
get_llm_response_ok_long(p, answer) ==
    /\ tasks[p].pc = "llm_wait"
    /\ Len(answer) > MAX_MESSAGE_LENGTH
    /\ user_conversations' =
           add_to_history(user_conversations, tasks[p].user, "assistant", answer)
    /\ turns_log' = Logged(turns_log, tasks[p].user, "assistant", answer,
                           tasks[p].seq)
    /\ tasks' = [tasks EXCEPT ![p].pc = "send_long_message", ![p].text = answer]
    /\ UNCHANGED <<MAX_HISTORY_MESSAGES, nupdates, files, last_export, ended>>

\* message.answer(prefix + part) returned: the part is sent, and the sleep
\* is awaited
send_long_message_answer(p) ==
    /\ tasks[p].pc = "send_long_message"
    /\ tasks' = [tasks EXCEPT
                    ![p].pc = "send_long_message_sleep",
                    ![p].sent = Append(@, send_long_message_messages(tasks[p].text)
                                              [Len(tasks[p].sent) + 1])]
    /\ UNCHANGED <<MAX_HISTORY_MESSAGES, user_conversations, nupdates, files, turns_log,
                   last_export, ended>>

\* asyncio.sleep returned: the next part, or the return to the handler,
\* which returns
send_long_message_sleep(p) ==
    /\ tasks[p].pc = "send_long_message_sleep"
    /\ tasks' = IF Len(tasks[p].sent) < Len(send_long_message_messages(tasks[p].text))
                THEN [tasks EXCEPT ![p].pc = "send_long_message"]
                ELSE [tasks EXCEPT ![p] = IdleTask]
    /\ UNCHANGED <<MAX_HISTORY_MESSAGES, user_conversations, nupdates, files, turns_log,
                   last_export, ended>>

\* message.answer(prefix + part) raised: the except branch of the handler
\* awaits the send of an error message
send_long_message_raise(p) ==
    /\ tasks[p].pc = "send_long_message"
    /\ tasks' = [tasks EXCEPT ![p].pc = "error_answer"]
    /\ UNCHANGED <<MAX_HISTORY_MESSAGES, user_conversations, nupdates, files, turns_log,
                   last_export, ended>>

(***************************************************************************)
(* handle_text                                                             *)
(***************************************************************************)
handle_text(u, text) ==
    /\ Suspend(u, text, "typing")
    /\ UNCHANGED <<MAX_HISTORY_MESSAGES, user_conversations, files, turns_log, last_export,
                   ended>>

\* message.chat.do("typing") returned: get_llm_response is entered
handle_text_typing(p) ==
    /\ tasks[p].pc = "typing"
    /\ get_llm_response_call(p, tasks[p].text)
    /\ UNCHANGED <<MAX_HISTORY_MESSAGES, nupdates, files, last_export, ended>>

\* an await of the transport raised inside the try block of the handler
\* (the typing status, the status message or the download of a voice
\* message, the acknowledgement of a photo, a send): the except branch awaits
\* the send of an error message
handler_raise(p) ==
    /\ tasks[p].pc \in {"typing", "voice_download", "photo_ack"} \cup GuardedSends
    /\ tasks' = [tasks EXCEPT ![p].pc = "error_answer"]
    /\ UNCHANGED <<MAX_HISTORY_MESSAGES, user_conversations, nupdates, files, turns_log,
                   last_export, ended>>

(***************************************************************************)
(* handle_voice and transcribe_audio.  The status message, get_file and    *)
(* download_file are awaited one after the other with the state as it is:  *)
(* they are one suspension, "voice_download".  When download_file returns  *)
(* the .oga file is written and transcribe_audio converts it to the .mp3   *)
(* file, then awaits session.post: the suspension "transcribe".  A voice   *)
(* message has a file id of its own, its arrival number here.              *)
(***************************************************************************)
\* file_path = f"voice_{message.voice.file_id}.oga"
voice_oga(file_id) == <<"v", "o", "i", "c", "e", "_">> \o file_id \o <<".", "o", "g", "a">>
\* mp3_path = audio_path.replace('.oga', '.mp3')
voice_mp3(file_id) == <<"v", "o", "i", "c", "e", "_">> \o file_id \o <<".", "m", "p", "3">>
\* what download_file and AudioSegment.export write
Audio(file_id) == [voice |-> file_id]

\* os.remove(audio_path); os.remove(mp3_path)
remove_voice_files(fs, file_id) ==
    [f \in DOMAIN fs \ {voice_oga(file_id), voice_mp3(file_id)} |-> fs[f]]

handle_voice(u) ==
    /\ Suspend(u, <<>>, "voice_download")
    /\ UNCHANGED <<MAX_HISTORY_MESSAGES, user_conversations, files, turns_log, last_export,
                   ended>>

\* download_file returned and transcribe_audio is entered.  converted: the
\* .mp3 file is written and session.post is awaited.  Not converted
\* (AudioSegment raised): the except branch of transcribe_audio removes the
\* files, None is returned and the handler awaits the send of the failure
\* message
handle_voice_downloaded(p, converted) ==
    /\ tasks[p].pc = "voice_download"
    /\ files' = IF converted
                 THEN (voice_oga(str(tasks[p].seq)) :> Audio(tasks[p].seq)) @@
                      (voice_mp3(str(tasks[p].seq)) :> Audio(tasks[p].seq)) @@ files
                 ELSE remove_voice_files(files, str(tasks[p].seq))
    /\ tasks' = [tasks EXCEPT ![p].pc = IF converted THEN "transcribe"
                                        ELSE "failure_answer"]
    /\ UNCHANGED <<MAX_HISTORY_MESSAGES, user_conversations, nupdates, turns_log,
                   last_export, ended>>

\* how transcribe_audio fails at session.post: "empty" (status 200 and a
\* text that is empty when stripped: the files are removed), "exception"
\* (the except branch removes the files), "status" (a status other than
\* 200: nothing is removed)
TranscribeFailures == {"empty", "exception", "status"}

\* a failure path that keeps what was heard as a user turn
handle_voice_untranscribed_kept(p, failure) ==
    /\ tasks[p].pc = "transcribe"
    /\ files' = IF failure = "status" THEN files
                 ELSE remove_voice_files(files, str(tasks[p].seq))
    /\ user_conversations' = add_to_history(user_conversations, tasks[p].user, "user", <<>>)
    /\ tasks' = [tasks EXCEPT ![p].pc = "failure_answer"]
    /\ UNCHANGED <<MAX_HISTORY_MESSAGES, nupdates, turns_log, last_export, ended>>

\* transcribe_audio returned None or an empty text ("if not text"): the
\* handler awaits the send of the failure message
handle_voice_untranscribed(p, failure) ==
    /\ tasks[p].pc = "transcribe"
    /\ files' = IF failure = "status" THEN files
                 ELSE remove_voice_files(files, str(tasks[p].seq))
    /\ tasks' = [tasks EXCEPT ![p].pc = "failure_answer"]
    /\ UNCHANGED <<MAX_HISTORY_MESSAGES, user_conversations, nupdates, turns_log,
                   last_export, ended>>

\* what Whisper may hear: result['text'] before it is stripped
Transcripts == UserTexts \cup { <<" ", "h", "i", "\n">> }

\* status 200 and a text: the files are removed and the stripped text is
\* returned through the exits of the two "async with" blocks, which may
\* suspend: the suspension "transcribed"
transcribe_audio_ok(p, text) ==
    /\ tasks[p].pc = "transcribe"
    /\ strip(text) # <<>>
    /\ files' = remove_voice_files(files, str(tasks[p].seq))
    /\ tasks' = [tasks EXCEPT ![p].pc = "transcribed", ![p].text = strip(text)]
    /\ UNCHANGED <<MAX_HISTORY_MESSAGES, user_conversations, nupdates, turns_log,
                   last_export, ended>>

\* transcribe_audio returned the text and get_llm_response is entered
handle_voice_transcribed(p) ==
    /\ tasks[p].pc = "transcribed"
    /\ get_llm_response_call(p, tasks[p].text)
    /\ UNCHANGED <<MAX_HISTORY_MESSAGES, nupdates, files, last_export, ended>>

(***************************************************************************)
(* handle_photo                                                            *)
(***************************************************************************)
\* "[Polxzovatelx otpravil foto ekzamenawionnoj raboty/materiala]"
PhotoNote ==
    <<"[", "P", "o", "l", "x", "z", "o", "v", "a", "t", "e", "l", "x", " ",
      "o", "t", "p", "r", "a", "v", "i", "l", " ", "f", "o", "t", "o", " ",
      "e", "k", "z", "a", "m", "e", "n", "a", "w", "i", "o", "n", "n", "o", "j", " ",
      "r", "a", "b", "o", "t", "y", "/", "m", "a", "t", "e", "r", "i", "a", "l", "a", "]">>
\* "\nPodpisx k foto: "
CaptionLabel ==
    <<"\n", "P", "o", "d", "p", "i", "s", "x", " ", "k", " ", "f", "o", "t", "o", ":", " ">>

photo_info(caption) ==
    IF caption = None \/ caption = <<>> THEN PhotoNote
    ELSE PhotoNote \o CaptionLabel \o caption

handle_photo(u, caption) ==
    /\ Suspend(u, caption, "photo_ack")
    /\ UNCHANGED <<MAX_HISTORY_MESSAGES, user_conversations, files, turns_log, last_export,
                   ended>>

\* the acknowledgement is sent; the note is added to the history
handle_photo_ack(p) ==
    /\ tasks[p].pc = "photo_ack"
    /\ user_conversations' =
           add_to_history(user_conversations, tasks[p].user, "user",
                          photo_info(tasks[p].text))
    /\ turns_log' = Logged(turns_log, tasks[p].user, "user",
                           photo_info(tasks[p].text), 0)
    /\ tasks' = [tasks EXCEPT ![p] = IdleTask]
    /\ UNCHANGED <<MAX_HISTORY_MESSAGES, nupdates, files, last_export, ended>>

(***************************************************************************)
(* export_to_excel                                                         *)
(***************************************************************************)
TriggerWords ==
    { <<"z", "o", "v", "u", "t">>, <<"i", "m", "q">>,
      <<"u", "c", "e", "n", "i", "k">>, <<"u", "c", "e", "n", "i", "w", "a">> }

\* the first word of the message that starts with a capital, is longer than
\* two characters and is alphabetic; None when there is none
first_name_word(content) ==
    LET words == split(content)
        hits == {i \in 1..Len(words) :
                    /\ IsUpperChar(words[i][1])
                    /\ Len(words[i]) > 2
                    /\ isalpha(words[i])}
    IN  IF hits = {} THEN None
        ELSE words[CHOOSE i \in hits : \A j \in hits : i <= j]

\* the loop over history that sets student_name: the break leaves the loop
\* over the words only, so every later matching message assigns again
RECURSIVE student_name_scan(_, _, _)
student_name_scan(history, i, name) ==
    IF i > Len(history) THEN name
    ELSE LET msg == history[i]
             found == IF /\ msg.role = "user"
                         /\ \E w \in TriggerWords : Contains(lower(msg.content), w)
                      THEN first_name_word(msg.content)
                      ELSE None
         IN  student_name_scan(history, i + 1, IF found = None THEN name ELSE found)
student_name(history) == student_name_scan(history, 1, None)

\* a signal that takes either marker for both
is_final_report_either(msg) ==
    /\ msg.role = "assistant"
    /\ \/ Contains(msg.content, <<"1", ".">>)
       \/ Contains(msg.content, <<"8", ".">>)

\* the finalization signal of one turn
is_final_report(msg) ==
    /\ msg.role = "assistant"
    /\ Contains(msg.content, <<"1", ".">>)
    /\ Contains(msg.content, <<"8", ".">>)

\* for msg in reversed(history): the content of the first turn that carries
\* the signal, None when the loop ends without one
RECURSIVE final_report_scan(_, _)
final_report_scan(history, i) ==
    IF i = 0 THEN None
    ELSE IF is_final_report(history[i]) THEN history[i].content
         ELSE final_report_scan(history, i - 1)
\* a scan from the oldest turn on
final_report_first(history) ==
    LET hits == {i \in 1..Len(history) : is_final_report(history[i])}
    IN  IF hits = {} THEN None
        ELSE history[CHOOSE i \in hits : \A j \in hits : i <= j].content

final_report(history) == final_report_scan(history, Len(history))

(***************************************************************************)
(* The parse of the report into rows: re.sub, re.split, str.strip and      *)
(* re.match as the patterns of the source make them act.                   *)
(***************************************************************************)
Digits == {"0", "1", "2", "3", "4", "5", "6", "7", "8", "9"}

\* re.sub(r'\*\*', '', s): every pair of asterisks is removed, left to right
RECURSIVE re_sub_bold_from(_, _)
re_sub_bold_from(s, i) ==
    IF i > Len(s) THEN <<>>
    ELSE IF i < Len(s) /\ s[i] = "*" /\ s[i + 1] = "*" THEN re_sub_bold_from(s, i + 2)
    ELSE <<s[i]>> \o re_sub_bold_from(s, i + 1)
re_sub_bold(s) == re_sub_bold_from(s, 1)

\* the length of the longest run of characters of the set cs that starts at s[i]
RunLength(s, i, cs) ==
    CHOOSE n \in 0..(Len(s) - i + 1) :
        /\ \A j \in i..(i + n - 1) : s[j] \in cs
        /\ i + n > Len(s) \/ s[i + n] \notin cs

\* \d+\. matches at s[i]
point_number_at(s, i) ==
    LET n == RunLength(s, i, Digits)
    IN  n >= 1 /\ i + n <= Len(s) /\ s[i + n] = "."

\* re.split(r'\n(?=\d+\.)', s): s is cut at every line break that a number
\* and a period follow; the line break is dropped
RECURSIVE re_split_points_from(_, _, _)
re_split_points_from(s, i, block) ==
    IF i > Len(s) THEN <<block>>
    ELSE IF s[i] = "\n" /\ point_number_at(s, i + 1)
         THEN <<block>> \o re_split_points_from(s, i + 1, <<>>)
         ELSE re_split_points_from(s, i + 1, Append(block, s[i]))
re_split_points(s) == re_split_points_from(s, 1, <<>>)

\* a number capture that takes one digit only
re_match_point_one_digit(point) ==
    IF Len(point) < 3 \/ point[1] \notin Digits \/ point[2] # "."
       \/ point[3] \in {":", "\n"}
    THEN None
    ELSE LET stop == 3 + RunLength(point, 3, {point[k] : k \in 1..Len(point)} \ {":", "\n"})
         IN  << <<point[1]>>,
                strip(SubSeq(point, 3, stop - 1)),
                strip(SubSeq(point, stop + 1, Len(point))) >>

\* re.match(r'^(\d+)\.\s*([^:\n]+):?\s*(.*)', point, re.DOTALL), with
\* as <<point_num, point_title, point_content>> (group(2) and group(3)
\* stripped); None when the pattern does not match.
\* \s* gives back what it took until a character other than a colon and a
\* line break is left for the title
re_match_point(point) ==
    LET n == RunLength(point, 1, Digits)
        after == n + 2
        gap == RunLength(point, after, Whitespace)
        starts == {q \in after..(after + gap) :
                      q <= Len(point) /\ point[q] \notin {":", "\n"}}
        q == CHOOSE x \in starts : \A y \in starts : y <= x
        stop == q + RunLength(point, q, {point[k] : k \in 1..Len(point)} \ {":", "\n"})
        rest == IF stop <= Len(point) /\ point[stop] = ":" THEN stop + 1 ELSE stop
    IN  IF n = 0 \/ n + 1 > Len(point) \/ point[n + 1] # "." \/ starts = {}
        THEN None
        ELSE << SubSeq(point, 1, n),
                strip(SubSeq(point, q, stop - 1)),
                strip(SubSeq(point, rest, Len(point))) >>

\* a loop over the points that gives up at the first one without a match
RECURSIVE worksheet_rows_abort(_, _)
worksheet_rows_abort(points, i) ==
    IF \E k \in 1..Len(points) :
           strip(points[k]) # <<>> /\ re_match_point(strip(points[k])) = None
    THEN <<>>
    ELSE IF i > Len(points) THEN <<>>
    ELSE LET match == re_match_point(strip(points[i]))
         IN  (IF strip(points[i]) = <<>> THEN <<>>
              ELSE << [A |-> match[1] \o <<".", " ">> \o match[2], B |-> match[3]] >>)
             \o worksheet_rows_abort(points, i + 1)

\* the loop over the points: an empty point and a point without a match are
\* passed over, every other point fills the next row (columns A and B)
RECURSIVE worksheet_rows(_, _)
worksheet_rows(points, i) ==
    IF i > Len(points) THEN <<>>
    ELSE LET point == strip(points[i])
             match == re_match_point(point)
         IN  (IF point = <<>> \/ match = None THEN <<>>
              ELSE << [A |-> match[1] \o <<".", " ">> \o match[2], B |-> match[3]] >>)
             \o worksheet_rows(points, i + 1)

\* the rows written below the header for a final report
report_rows(final) == worksheet_rows(re_split_points(re_sub_bold(final)), 1)

\* a number in at least two digits ('%d', '%m', '%H', '%M', '%S'; '%Y' for a
\* year of four digits)
zero_padded(n) == IF n < 10 THEN <<"0">> \o str(n) ELSE str(n)

\* datetime.strftime('%d.%m.%Y %H:%M'): the time to the minute
strftime_minute(now) ==
    zero_padded(now.day) \o <<".">> \o zero_padded(now.month) \o <<".">> \o
    zero_padded(now.year) \o <<" ">> \o zero_padded(now.hour) \o <<":">> \o
    zero_padded(now.minute)

\* datetime.strftime('%Y%m%d_%H%M%S'): the time to the second
strftime_second(now) ==
    zero_padded(now.year) \o zero_padded(now.month) \o zero_padded(now.day) \o
    <<"_">> \o zero_padded(now.hour) \o zero_padded(now.minute) \o
    zero_padded(now.second)

\* "OTCET_" and ".xlsx", the ends of the file name
FILE_PREFIX == <<"O", "T", "C", "E", "T", "_">>
XLSX == <<".", "x", "l", "s", "x">>

\* the file name: the upper-cased name, else the user id and the time
export_filename(name, user_id, now) ==
    IF name # None THEN FILE_PREFIX \o upper(name) \o XLSX
    ELSE FILE_PREFIX \o str(user_id) \o <<"_">> \o strftime_second(now) \o XLSX

\* the texts of the title and of the header cells
TITLE == <<"O", "t", "c", "e", "t", " ", "p", "r", "e", "p", "o", "d", "a", "v", "a",
           "t", "e", "l", "q">>
HEADER_A == <<"P", "u", "n", "k", "t", " ", "o", "t", "c", "e", "t", "a">>
HEADER_B == <<"K", "o", "m", "m", "e", "n", "t", "a", "r", "i", "j">>

\* ws['A1'], the merged title cell: the title, the name when there is one,
\* and the time to the minute
worksheet_title(name, now) ==
    (IF name # None THEN TITLE \o <<" ", "-", " ">> \o name ELSE TITLE)
        \o <<" ", "-", " ">> \o strftime_minute(now)

\* the sheet before the loop: the title in row 1, the header in row 2
worksheet_head(name, now) ==
    (1 :> [A |-> worksheet_title(name, now), B |-> None]) @@
    (2 :> [A |-> HEADER_A, B |-> HEADER_B])

\* a loop that moves to the next row after every point, written or not
RECURSIVE worksheet_fill_stepping(_, _, _, _)
worksheet_fill_stepping(ws, points, i, row) ==
    IF i > Len(points) THEN ws
    ELSE LET point == strip(points[i])
             match == re_match_point(point)
         IN  IF point = <<>> \/ match = None
             THEN worksheet_fill_stepping(ws, points, i + 1, row + 1)
             ELSE worksheet_fill_stepping(
                      (row :> [A |-> match[1] \o <<".", " ">> \o match[2],
                               B |-> match[3]]) @@ ws,
                      points, i + 1, row + 1)

\* the loop over the points with its row counter: a point with a match is
\* written to ws[A<row>] and ws[B<row>] and row moves on; "continue" and
\* the else branch leave row where it is
RECURSIVE worksheet_fill(_, _, _, _)
worksheet_fill(ws, points, i, row) ==
    IF i > Len(points) THEN ws
    ELSE LET point == strip(points[i])
             match == re_match_point(point)
         IN  IF point = <<>> \/ match = None
             THEN worksheet_fill(ws, points, i + 1, row)
             ELSE worksheet_fill(
                      (row :> [A |-> match[1] \o <<".", " ">> \o match[2],
                               B |-> match[3]]) @@ ws,
                      points, i + 1, row + 1)

\* the cells of the sheet that is saved, by row number; row = 3 at the
\* start of the loop
worksheet(name, report, now) ==
    worksheet_fill(worksheet_head(name, now), re_split_points(re_sub_bold(report)), 1, 3)

\* what is saved: the title's name, the report the rows are parsed from,
\* the rows, and the sheet
Workbook(name, report, now) ==
    [name |-> name, report |-> report, rows |-> report_rows(report),
     sheet |-> worksheet(name, report, now)]

\* the times datetime.now() may return, in their order: the last second of
\* one minute and the first second of the next
Clock ==
    << [year |-> 2026, month |-> 10, day |-> 31, hour |-> 6, minute |-> 30, second |-> 59],
       [year |-> 2026, month |-> 10, day |-> 31, hour |-> 6, minute |-> 31, second |-> 0] >>
Stamps == {Clock[i] : i \in DOMAIN Clock}

\* two reads of the clock, one after the other
ClockReads ==
    UNION { {<<Clock[i], Clock[j]>> : j \in i..Len(Clock)} : i \in DOMAIN Clock }

\* the value export_to_excel returns (a file name or None)
export_path(history, user_id, later, save_ok) ==
    IF history = <<>> THEN None
    ELSE IF final_report(history) = None THEN None
    ELSE IF ~save_ok THEN None
    ELSE export_filename(student_name(history), user_id, later)

\* wb.save(filename): the file is created or overwritten; the title is of
\* the time now, the file name of the time later
export_files(fs, history, user_id, now, later, save_ok) ==
    LET path == export_path(history, user_id, later, save_ok)
    IN  IF path = None THEN fs
        ELSE (path :> Workbook(student_name(history), final_report(history), now)) @@ fs

\* the call export_to_excel(user_id) with the outcome save_ok of wb.save.
\* The clock is read twice: now for the title, and later, at that time or
\* after it, for the file name of an export without a name
export_to_excel(user_id, now, later, save_ok) ==
    LET history == get_conversation_history(user_conversations, user_id)
    IN  /\ <<now, later>> \in ClockReads
        /\ last_export' =
               [user |-> user_id,
                report |-> IF history = <<>> THEN None ELSE final_report(history),
                path |-> export_path(history, user_id, later, save_ok)]
        /\ user_conversations' = defaultdict_getitem(user_conversations, user_id)
        /\ files' = export_files(files, history, user_id, now, later, save_ok)

(***************************************************************************)
(* handle_export_excel                                                     *)
(***************************************************************************)
\* the loop of the handler that sets has_final_report
has_final_report(history) == \E i \in 1..Len(history) : is_final_report(history[i])

\* the history is empty, or holds no final report: the handler awaits the
\* send of the refusal
handle_export_excel_refuse(u) ==
    /\ LET history == get_conversation_history(user_conversations, u)
       IN  history = <<>> \/ ~has_final_report(history)
    /\ Suspend(u, <<>>, "refusal")
    /\ user_conversations' = defaultdict_getitem(user_conversations, u)
    /\ UNCHANGED <<MAX_HISTORY_MESSAGES, files, turns_log, last_export, ended>>

\* a final report is found: the handler announces the export and awaits
\* the send of the announcement
handle_export_excel(u) ==
    /\ has_final_report(get_conversation_history(user_conversations, u))
    /\ Suspend(u, <<>>, "export_wait")
    /\ user_conversations' = defaultdict_getitem(user_conversations, u)
    /\ UNCHANGED <<MAX_HISTORY_MESSAGES, files, turns_log, last_export, ended>>

\* the send of the announcement raised: it is outside the try block
handle_export_excel_abort(p) ==
    /\ tasks[p].pc = "export_wait"
    /\ tasks' = [tasks EXCEPT ![p] = IdleTask]
    /\ UNCHANGED <<MAX_HISTORY_MESSAGES, user_conversations, nupdates, files, turns_log,
                   last_export>>
    /\ ended' = "raised"

\* the announcement is sent and export_to_excel runs (it awaits nothing);
\* with a file name the send of the document is awaited, without one the
\* send of the error message
handle_export_excel_export(p, now, later, save_ok) ==
    /\ tasks[p].pc = "export_wait"
    /\ export_to_excel(tasks[p].user, now, later, save_ok)
    /\ tasks' = IF last_export'.path = None
                THEN [tasks EXCEPT ![p].pc = "error_answer"]
                ELSE [tasks EXCEPT ![p].pc = "send_document",
                                   ![p].file = last_export'.path]
    /\ UNCHANGED <<MAX_HISTORY_MESSAGES, nupdates, turns_log, ended>>

\* answer_document returned, having read the file, and os.remove removes
\* the file
handle_export_excel_sent(p) ==
    /\ tasks[p].pc = "send_document"
    /\ tasks[p].file \in DOMAIN files
    /\ files' = [f \in DOMAIN files \ {tasks[p].file} |-> files[f]]
    /\ tasks' = [tasks EXCEPT ![p] = IdleTask]
    /\ UNCHANGED <<MAX_HISTORY_MESSAGES, user_conversations, nupdates, turns_log,
                   last_export, ended>>

\* answer_document raised (the transport, or a file that is gone): the
\* file stays as it is and the except branch awaits the send of an error
\* message
handle_export_excel_unsent(p) ==
    /\ tasks[p].pc = "send_document"
    /\ tasks' = [tasks EXCEPT ![p].pc = "error_answer"]
    /\ UNCHANGED <<MAX_HISTORY_MESSAGES, user_conversations, nupdates, files, turns_log,
                   last_export, ended>>


Next ==
    \/ \E u \in Users : cmd_start(u)
    \/ \E u \in Users : handle_clear_history(u)
    \/ \E u \in Users : cmd_clear(u)
    \/ \E u \in Users : cmd_history(u)
    \/ \E u \in Users, text \in UserTexts : handle_text(u, text)
    \/ \E p \in Slots : handle_text_typing(p)
    \/ \E p \in Slots, answer \in Answers : get_llm_response_ok(p, answer)
    \/ \E p \in Slots, failure \in LLMFailures : get_llm_response_fail(p, failure)
    \/ \E p \in Slots : handler_raise(p)
    \/ \E p \in Slots : message_answer_returned(p)
    \/ \E p \in Slots : message_answer_raised(p)
    \/ \E u \in Users : handle_voice(u)
    \/ \E p \in Slots, converted \in BOOLEAN : handle_voice_downloaded(p, converted)
    \/ \E p \in Slots, failure \in TranscribeFailures :
           handle_voice_untranscribed(p, failure)
    \/ \E p \in Slots, text \in Transcripts : transcribe_audio_ok(p, text)
    \/ \E p \in Slots : handle_voice_transcribed(p)
    \/ \E u \in Users, caption \in Captions : handle_photo(u, caption)
    \/ \E p \in Slots : handle_photo_ack(p)
    \/ \E u \in Users : handle_export_excel_refuse(u)
    \/ \E u \in Users : handle_export_excel(u)
    \/ \E p \in Slots : handle_export_excel_abort(p)
    \/ \E p \in Slots, now \in Stamps, later \in Stamps, save_ok \in BOOLEAN :
           handle_export_excel_export(p, now, later, save_ok)
    \/ \E p \in Slots : handle_export_excel_sent(p)
    \/ \E p \in Slots : handle_export_excel_unsent(p)

Spec == Init /\ [][Next]_vars

(***************************************************************************)
(* export_to_excel and the check of handle_export_excel as functions of    *)
(* the history: one user's history is any sequence of at most MaxHistLen   *)
(* turns; export_to_excel is called on it directly, and the handler runs   *)
(* its check on it.                                                        *)
(***************************************************************************)
ExportTurns ==
    {Turn("user", t) : t \in UserTexts} \cup
    {Turn("assistant", a) :
        a \in (Answers \ { <<"o", "k">> }) \cup { <<"1", ".", "a">>, <<"1", ".", "8", ".">> }}

SeededUser == CHOOSE u \in Users : TRUE

Histories == UNION {[1..k -> ExportTurns] : k \in 0..MaxHistLen}

InitExport ==
    /\ MAX_HISTORY_MESSAGES = MaxHistLen
    /\ \E h \in Histories :
           /\ user_conversations = (SeededUser :> h)
           /\ turns_log =
                  [v \in Users |->
                      IF v = SeededUser
                      THEN [i \in 1..Len(h) |->
                               [role |-> h[i].role, content |-> h[i].content, seq |-> 0]]
                      ELSE <<>>]
    /\ tasks = [p \in Slots |-> IdleTask]
    \* the updates that built the history have been handled; one more follows
    /\ nupdates = MaxUpdates - 1
    /\ files = <<>>
    /\ last_export = NoExport
    /\ ended = "none"

export_to_excel_call(u, now, later, save_ok) ==
    /\ export_to_excel(u, now, later, save_ok)
    /\ UNCHANGED <<MAX_HISTORY_MESSAGES, tasks, nupdates, turns_log, ended>>

NextExport ==
    \/ \E u \in Users, now \in Stamps, later \in Stamps, save_ok \in BOOLEAN :
           export_to_excel_call(u, now, later, save_ok)
    \/ \E u \in Users : handle_export_excel_refuse(u)
    \/ \E u \in Users : handle_export_excel(u)
    \/ \E p \in Slots : message_answer_returned(p)
    \/ \E p \in Slots : message_answer_raised(p)

SpecExport == InitExport /\ [][NextExport]_vars

(***************************************************************************)
(* SpecParse                                                               *)
(* The parse of a report as a function of its text: the history of one     *)
(* user is one assistant turn, a report of at most MaxPoints lines, and    *)
(* export_to_excel is called on it.  A line is a point "<n>. <Title>:      *)
(* <Body>", or a number and a period with nothing, or a colon only, after  *)
(* them, or "1.:8." (both markers of a final report, and no match).        *)
(***************************************************************************)
PointNumbers == { <<"1">>, <<"8">>, <<"1", "0">> }
PointTitles == { <<"T", " ", "u">> }
PointBodies == { <<"b">>, <<"c", ":", "d">> }
PointLine(n, t, b) == n \o <<".", " ">> \o t \o <<":", " ">> \o b
PointLines == {PointLine(n, t, b) : n \in PointNumbers, t \in PointTitles, b \in PointBodies}
BrokenLines == { <<"3", ".">>, <<"3", ".", ":">>, <<"1", ".", ":", "8", ".">> }

RECURSIVE JoinLines(_)
JoinLines(ls) ==
    IF Len(ls) = 1 THEN ls[1] ELSE ls[1] \o <<"\n">> \o JoinLines(Tail(ls))

ReportTexts ==
    {JoinLines(ls) : ls \in UNION {[1..k -> PointLines \cup BrokenLines] : k \in 1..MaxPoints}}

InitParse ==
    /\ MAX_HISTORY_MESSAGES = MaxHistLen
    /\ \E text \in ReportTexts :
           /\ user_conversations = (SeededUser :> <<Turn("assistant", text)>>)
           /\ turns_log =
                  [v \in Users |->
                      IF v = SeededUser
                      THEN << [role |-> "assistant", content |-> text, seq |-> 0] >>
                      ELSE <<>>]
    /\ tasks = [p \in Slots |-> IdleTask]
    /\ nupdates = MaxUpdates - 1
    /\ files = <<>>
    /\ last_export = NoExport
    /\ ended = "none"

NextParse ==
    \E u \in Users, now \in Stamps, later \in Stamps, save_ok \in BOOLEAN :
        export_to_excel_call(u, now, later, save_ok)

SpecParse == InitParse /\ [][NextParse]_vars

(***************************************************************************)
(* SpecName                                                                *)
(* The scan for the student's name as a function of the history: at most   *)
(* MaxNameTurns user turns, then a final report, and export_to_excel is    *)
(* called.  "Ucenika zovut Ivan Petrov" stands for the message of the      *)
(* same four words.                                                        *)
(***************************************************************************)
NameTexts ==
    { <<"z", "o", "v", "u", "t", " ", "I", "v", "a", "n">>,
      <<"i", "m", "q", " ", "P", "e", "t", "r">>,
      <<"U", "c", "e", "n", "i", "k", "a", " ", "z", "o", "v", "u", "t", " ",
        "I", "v", "a", "n", " ", "P", "e", "t", "r", "o", "v">>,
      <<"Z", "d", "e", "s", " ", "i", "m", "q", " ", "P", "e", "t", "r">>,
      <<"h", "i", " ", "I", "v", "a", "n">> }

NameHistories ==
    {[i \in 1..(Len(us) + 1) |->
         IF i <= Len(us) THEN Turn("user", us[i])
         ELSE Turn("assistant", <<"1", ".", "a", "\n", "8", ".", "b">>)] :
     us \in UNION {[1..k -> NameTexts] : k \in 0..MaxNameTurns}}

InitName ==
    /\ MAX_HISTORY_MESSAGES = MaxNameTurns + 1
    /\ \E h \in NameHistories :
           /\ user_conversations = (SeededUser :> h)
           /\ turns_log =
                  [v \in Users |->
                      IF v = SeededUser
                      THEN [i \in 1..Len(h) |->
                               [role |-> h[i].role, content |-> h[i].content, seq |-> 0]]
                      ELSE <<>>]
    /\ tasks = [p \in Slots |-> IdleTask]
    /\ nupdates = MaxUpdates - 1
    /\ files = <<>>
    /\ last_export = NoExport
    /\ ended = "none"

NextName ==
    \E u \in Users, now \in Stamps, later \in Stamps, save_ok \in BOOLEAN :
        export_to_excel_call(u, now, later, save_ok)

SpecName == InitName /\ [][NextName]_vars

(***************************************************************************)
(* SpecSend                                                                *)
(* send_long_message as a function of the reply: a text message of a user  *)
(* awaits its completion, and the answer is any text of at most            *)
(* MaxReplyLines lines of the lengths ReplyLineLengths (line j is made of  *)
(* the j-th letter).                                                       *)
(***************************************************************************)
ReplyLineLengths == {0, 1, 2000, 4000, 4097}

ReplyLine(j, n) == [i \in 1..n |-> LowerCase[j]]

Replies ==
    {JoinLines([j \in 1..Len(ns) |-> ReplyLine(j, ns[j])]) :
        ns \in UNION {[1..k -> ReplyLineLengths] : k \in 1..MaxReplyLines}}

InitSend ==
    /\ MAX_HISTORY_MESSAGES = MaxLimit
    /\ user_conversations = (SeededUser :> <<Turn("user", <<"h", "i">>)>>)
    /\ turns_log =
           [v \in Users |->
               IF v = SeededUser
               THEN << [role |-> "user", content |-> <<"h", "i">>, seq |-> 1] >>
               ELSE <<>>]
    /\ tasks =
           [p \in Slots |->
               IF p = 1
               THEN [IdleTask EXCEPT
                        !.pc = "llm_wait", !.user = SeededUser, !.text = <<"h", "i">>,
                        !.seq = 1,
                        !.request = <<Turn("system", SYSTEM_PROMPT),
                                      Turn("user", <<"h", "i">>)>>]
               ELSE IdleTask]
    /\ nupdates = 1
    /\ files = <<>>
    /\ last_export = NoExport
    /\ ended = "none"

NextSend ==
    \/ \E p \in Slots, answer \in Replies : get_llm_response_ok(p, answer)
    \/ \E p \in Slots, answer \in Replies : get_llm_response_ok_long(p, answer)
    \/ \E p \in Slots : send_long_message_answer(p)
    \/ \E p \in Slots : send_long_message_sleep(p)
    \/ \E p \in Slots : send_long_message_raise(p)
    \/ \E p \in Slots : handler_raise(p)
    \/ \E p \in Slots : message_answer_returned(p)
    \/ \E p \in Slots : message_answer_raised(p)

SpecSend == InitSend /\ [][NextSend]_vars

(***************************************************************************)
(* SpecFiles                                                               *)
(* Export handlers side by side: every user has a history that ends with   *)
(* a final report of the user's own, with or without a message that gives  *)
(* the name Ivan before it, and presses the export button.  No history     *)
(* changes.                                                                *)
(***************************************************************************)
\* the final report of user u
UserReport(u) == <<"1", ".", "a", "\n", "8", ".", "b">> \o str(u)

FileHistories(u) ==
    { <<Turn("user", <<"h", "i">>), Turn("assistant", UserReport(u))>>,
      <<Turn("user", <<"z", "o", "v", "u", "t", " ", "I", "v", "a", "n">>),
        Turn("assistant", UserReport(u))>> }

InitFiles ==
    /\ MAX_HISTORY_MESSAGES = MaxHistLen
    /\ user_conversations \in [Users -> UNION {FileHistories(u) : u \in Users}]
    /\ \A u \in Users : user_conversations[u] \in FileHistories(u)
    /\ turns_log =
           [u \in Users |->
               [i \in 1..Len(user_conversations[u]) |->
                   [role |-> user_conversations[u][i].role,
                    content |-> user_conversations[u][i].content, seq |-> 0]]]
    /\ tasks = [p \in Slots |-> IdleTask]
    /\ nupdates = 0
    /\ files = <<>>
    /\ last_export = NoExport
    /\ ended = "none"

NextFiles ==
    \/ \E u \in Users : handle_export_excel(u)
    \/ \E p \in Slots : handle_export_excel_abort(p)
    \/ \E p \in Slots, now \in Stamps, later \in Stamps, save_ok \in BOOLEAN :
           handle_export_excel_export(p, now, later, save_ok)
    \/ \E p \in Slots : handle_export_excel_sent(p)
    \/ \E p \in Slots : handle_export_excel_unsent(p)
    \/ \E p \in Slots : message_answer_returned(p)
    \/ \E p \in Slots : message_answer_raised(p)

SpecFiles == InitFiles /\ [][NextFiles]_vars

(***************************************************************************)
(* SpecRace                                                                *)
(* The same, with the clear of a history among the steps: a user may       *)
(* press the next-student button while an export handler of the user is    *)
(* suspended.                                                              *)
(***************************************************************************)
NextRace ==
    \/ NextFiles
    \/ \E u \in Users : handle_clear_history(u)
    \/ \E u \in Users : handle_export_excel_refuse(u)

SpecRace == InitFiles /\ [][NextRace]_vars

(***************************************************************************)
(* The claims.                                                             *)
(***************************************************************************)
History(u) == get_conversation_history(user_conversations, u)
Plain(log) == [i \in 1..Len(log) |-> Turn(log[i].role, log[i].content)]
LastN(s, n) == SubSeq(s, Len(s) - n + 1, Len(s))

\* the step in which task p enters get_llm_response
CallStep(p) ==
    \/ handle_text_typing(p)
    \/ handle_voice_transcribed(p)

\* a step of a handler of user a that appends to or clears a history
MutatesFor(a) ==
    \/ cmd_start(a) \/ handle_clear_history(a) \/ cmd_clear(a)
    \/ \E p \in Slots :
          /\ tasks[p].user = a
          /\ \/ CallStep(p)
             \/ \E answer \in Answers : get_llm_response_ok(p, answer)
             \/ handle_photo_ack(p)

ClearStep(u) == cmd_start(u) \/ handle_clear_history(u) \/ cmd_clear(u)

\* C1: with a limit of at least 1, every user's history holds at most
\* MAX_HISTORY_MESSAGES turns in every reachable state.
HistoryBounded ==
    MAX_HISTORY_MESSAGES >= 1 =>
        \A u \in DOMAIN user_conversations :
            Len(user_conversations[u]) <= MAX_HISTORY_MESSAGES

\* a history at its limit after turns have been evicted
HistoryBoundedWitness ==
    /\ MAX_HISTORY_MESSAGES >= 1
    /\ \E u \in DOMAIN user_conversations :
          /\ Len(user_conversations[u]) = MAX_HISTORY_MESSAGES
          /\ Len(turns_log[u]) > MAX_HISTORY_MESSAGES

\* C2: after N appends for a user since the history was empty, the history
\* is the last min(N, MAX_HISTORY_MESSAGES) appended turns in the order of
\* their appending (a limit of at least 1: the newest turn is kept).
HistoryIsLastAppended ==
    MAX_HISTORY_MESSAGES >= 1 =>
        \A u \in Users :
            History(u) = LastN(Plain(turns_log[u]),
                               Min(Len(turns_log[u]), MAX_HISTORY_MESSAGES))

\* three appends under a limit of two: the oldest turn is gone
HistoryIsLastAppendedWitness ==
    /\ MAX_HISTORY_MESSAGES = 2
    /\ \E u \in Users :
          /\ Len(turns_log[u]) = 3
          /\ History(u) = <<Plain(turns_log[u])[2], Plain(turns_log[u])[3]>>
          /\ Plain(turns_log[u])[2] # Plain(turns_log[u])[3]

\* C3: a step that appends to or clears the history of user a leaves the
\* history of every other user as it was.
OtherHistoriesUnchanged ==
    [][\A a \in Users :
          MutatesFor(a) =>
              \A b \in Users \ {a} :
                  get_conversation_history(user_conversations', b) = History(b)]_vars

\* both users hold a history of their own
OtherHistoriesUnchangedWitness ==
    \E a \in Users, b \in Users :
        /\ a # b
        /\ History(a) # <<>>
        /\ History(b) # <<>>
        /\ History(a) # History(b)

\* C4: right after clear_history(u) the history of u is empty, whatever
\* it was, and a second clear_history(u) would change nothing.
ClearEmptiesAndIsIdempotent ==
    [][\A u \in Users :
          ClearStep(u) =>
              /\ get_conversation_history(user_conversations', u) = <<>>
              /\ clear_history(user_conversations', u) = user_conversations']_vars

\* the history of a user is empty although the user turn of a request that
\* still awaits its completion was appended to it: a clear emptied it
ClearEmptiesWitness ==
    /\ MAX_HISTORY_MESSAGES >= 1
    /\ \E p \in Slots :
          /\ tasks[p].pc = "llm_wait"
          /\ tasks[p].user \in DOMAIN user_conversations
          /\ user_conversations[tasks[p].user] = <<>>

\* the history of u with one more user turn, cut to the limit
WithUserTurn(u, text) ==
    LET full == Append(History(u), Turn("user", text))
    IN  LastN(full, Min(Len(full), MAX_HISTORY_MESSAGES))

\* C5: get_llm_response appends the user turn (cut to the limit) when it is
\* entered, and when the completion call fails (exception, status other
\* than 200, malformed body) it changes no history: the user turn stays and
\* no assistant turn is added.
FailureKeepsUserTurn ==
    [][\A p \in Slots :
          /\ CallStep(p) =>
                (MAX_HISTORY_MESSAGES >= 1 =>
                    get_conversation_history(user_conversations', tasks[p].user)
                        = WithUserTurn(tasks[p].user, tasks'[p].text))
          /\ \A failure \in LLMFailures :
                get_llm_response_fail(p, failure) =>
                    /\ user_conversations' = user_conversations
                    /\ tasks'[p].pc = "answer"]_vars

\* every request has ended, and a history ends with the user turn of a
\* request: its completion call failed
FailureKeepsUserTurnWitness ==
    /\ MAX_HISTORY_MESSAGES >= 1
    /\ \A p \in Slots : tasks[p].pc = "idle"
    /\ \E u \in Users :
          /\ turns_log[u] # <<>>
          /\ History(u) # <<>>
          /\ History(u)[Len(History(u))].role = "user"
          /\ turns_log[u][Len(turns_log[u])].seq > 0

\* C6: at most one request of a user is between the append of its user
\* turn and the end of its completion call.
OneRequestInFlightPerUser ==
    \A u \in Users :
        Cardinality({p \in Slots : tasks[p].pc = "llm_wait" /\ tasks[p].user = u}) <= 1

\* C7: the user turns of a user's requests are appended in the order in
\* which the requests arrived.
UserTurnsInArrivalOrder ==
    \A u \in Users :
        \A i \in 1..Len(turns_log[u]), j \in 1..Len(turns_log[u]) :
            /\ i < j
            /\ turns_log[u][i].role = "user" /\ turns_log[u][i].seq > 0
            /\ turns_log[u][j].role = "user" /\ turns_log[u][j].seq > 0
            => turns_log[u][i].seq < turns_log[u][j].seq

\* C8: the request get_llm_response issues is the system prompt followed by
\* the history as it is once the user turn is appended; its last turn is
\* the utterance, and with a limit of at least 1 it holds at most
\* MAX_HISTORY_MESSAGES turns after the system prompt.
RequestIsPromptPlusHistory ==
    [][\A p \in Slots :
          CallStep(p) =>
              LET request == tasks'[p].request
                  history == get_conversation_history(user_conversations', tasks[p].user)
              IN  /\ tasks'[p].pc = "llm_wait"
                  /\ request = <<Turn("system", SYSTEM_PROMPT)>> \o history
                  /\ request[Len(request)] = Turn("user", tasks'[p].text)
                  /\ tasks[p].pc = "typing" => tasks'[p].text = tasks[p].text
                  /\ MAX_HISTORY_MESSAGES >= 1 =>
                        Len(request) - 1 <= MAX_HISTORY_MESSAGES]_vars

\* a request in flight that was cut to the limit: it holds the system
\* prompt and MAX_HISTORY_MESSAGES turns, of more that were appended
RequestIsPromptPlusHistoryWitness ==
    /\ MAX_HISTORY_MESSAGES >= 1
    /\ \E p \in Slots :
          /\ tasks[p].pc = "llm_wait"
          /\ Len(tasks[p].request) = MAX_HISTORY_MESSAGES + 1
          /\ Len(turns_log[tasks[p].user]) > MAX_HISTORY_MESSAGES
          /\ tasks[p].request[Len(tasks[p].request)] = Turn("user", tasks[p].text)

\* a call of export_to_excel(u) happens in the step
ExportRan(u) ==
    \E now \in Stamps, later \in Stamps, save_ok \in BOOLEAN :
        export_to_excel(u, now, later, save_ok)

HasSignal(turn) ==
    /\ turn.role = "assistant"
    /\ Contains(turn.content, <<"1", ".">>)
    /\ Contains(turn.content, <<"8", ".">>)
\* the positions of the assistant turns of h that carry the signal
SignalTurns(h) == {i \in 1..Len(h) : HasSignal(h[i])}
\* the last assistant turn of h carries the signal
LastAssistantHasSignal(h) ==
    \E i \in SignalTurns(h) : \A j \in (i + 1)..Len(h) : h[j].role # "assistant"

\* C9, as stated: whenever the last assistant turn of the history lacks the
\* signal, export_to_excel yields no report and the check of the handler
\* finds none.
ReportOnlyIfLastAssistantFinal ==
    [][\A u \in Users :
          /\ (ExportRan(u) /\ ~LastAssistantHasSignal(History(u))) =>
                (last_export'.report = None /\ last_export'.path = None)
          /\ handle_export_excel(u) => LastAssistantHasSignal(History(u))]_vars

\* C9, amended: whenever no assistant turn of the history carries the
\* signal, export_to_excel yields no report and writes no file, and the
\* check of the handler finds none.
ReportOnlyIfSomeAssistantFinal ==
    [][\A u \in Users :
          /\ (ExportRan(u) /\ SignalTurns(History(u)) = {}) =>
                /\ last_export'.report = None
                /\ last_export'.path = None
                /\ files' = files
          /\ handle_export_excel(u) => SignalTurns(History(u)) # {}]_vars

\* export_to_excel ran on a history whose assistant turn holds one marker
\* and whose user turn holds both, and it yielded nothing
ReportOnlyIfSomeAssistantFinalWitness ==
    /\ last_export.user \in Users
    /\ last_export.report = None
    /\ last_export.path = None
    /\ files = <<>>
    /\ LET h == History(last_export.user)
       IN  /\ \E i \in 1..Len(h) :
                 h[i].role = "assistant" /\ Contains(h[i].content, <<"1", ".">>)
           /\ \E i \in 1..Len(h) :
                 /\ h[i].role = "user"
                 /\ Contains(h[i].content, <<"1", ".">>)
                 /\ Contains(h[i].content, <<"8", ".">>)

\* C10: export_to_excel parses the latest assistant turn that carries the
\* signal, never a user turn; when no assistant turn carries it (the empty
\* history included) it returns None and writes no file.
LatestReportParsed ==
    [][\A u \in Users :
          ExportRan(u) =>
              LET h == History(u)
                  hits == SignalTurns(h)
                  latest == CHOOSE i \in hits : \A j \in hits : j <= i
              IN  IF hits = {}
                  THEN /\ last_export'.report = None
                       /\ last_export'.path = None
                       /\ files' = files
                  ELSE /\ last_export'.report = h[latest].content
                       /\ last_export'.path # None =>
                             /\ last_export'.path \in DOMAIN files'
                             /\ files'[last_export'.path].report = h[latest].content]_vars

\* the report saved is that of the second of two assistant turns with the
\* signal, and a later user turn with both markers was passed over
LatestReportParsedWitness ==
    /\ last_export.user \in Users
    /\ last_export.path \in DOMAIN files
    /\ LET h == History(last_export.user)
       IN  /\ Len(h) = 3
           /\ HasSignal(h[1]) /\ HasSignal(h[2])
           /\ h[1].content # h[2].content
           /\ h[3].role = "user"
           /\ Contains(h[3].content, <<"1", ".">>)
           /\ Contains(h[3].content, <<"8", ".">>)
           /\ files[last_export.path].report = h[2].content


\* the lines of a text
RECURSIVE SplitLines(_, _, _)
SplitLines(s, i, line) ==
    IF i > Len(s) THEN <<line>>
    ELSE IF s[i] = "\n" THEN <<line>> \o SplitLines(s, i + 1, <<>>)
    ELSE SplitLines(s, i + 1, Append(line, s[i]))
LinesOf(s) == SplitLines(s, 1, <<>>)

\* row is the row of the line "<n>. <Title>: <Body>"
RowOfLine(row, line) ==
    \E n \in PointNumbers, t \in PointTitles, b \in PointBodies :
        /\ line = PointLine(n, t, b)
        /\ row = [A |-> n \o <<".", " ">> \o t, B |-> b]

IsPointLine(line) == line \in PointLines

\* C11: a report made of k lines "<n>. <Title>: <Body>" is saved as exactly
\* k rows in the order of the lines, each row holding the number, the title
\* and the body of its line; the number is the whole run of digits.
EveryPointLineParsed ==
    \A path \in DOMAIN files :
        LET lines == LinesOf(files[path].report)
            rows == files[path].rows
        IN  (\A i \in 1..Len(lines) : IsPointLine(lines[i])) =>
                /\ Len(rows) = Len(lines)
                /\ \A i \in 1..Len(lines) : RowOfLine(rows[i], lines[i])

\* a saved report of three points whose second point has the number 10
EveryPointLineParsedWitness ==
    \E path \in DOMAIN files :
        LET lines == LinesOf(files[path].report)
            rows == files[path].rows
        IN  /\ Len(lines) = 3
            /\ \A i \in 1..3 : IsPointLine(lines[i])
            /\ Len(rows) = 3
            /\ rows[2].A = <<"1", "0", ".", " ", "T", " ", "u">>
            /\ rows[2].B = <<"c", ":", "d">>

\* C12: a point-block without a match (a number and a period with no text
\* after them) is passed over and nothing else is lost: the rows are those
\* of the other lines, in their order.
OnlyBrokenPointsSkipped ==
    \A path \in DOMAIN files :
        LET lines == LinesOf(files[path].report)
            rows == files[path].rows
            good == SelectSeq(lines, IsPointLine)
        IN  (\E i \in 1..Len(lines) : lines[i] \in BrokenLines) =>
                /\ Len(rows) = Len(good)
                /\ \A i \in 1..Len(good) : RowOfLine(rows[i], good[i])

\* a saved report whose second line is "3.": the rows are those of the
\* first and of the third line
OnlyBrokenPointsSkippedWitness ==
    \E path \in DOMAIN files :
        LET lines == LinesOf(files[path].report)
            rows == files[path].rows
        IN  /\ Len(lines) = 3
            /\ lines[2] = <<"3", ".">>
            /\ IsPointLine(lines[1]) /\ IsPointLine(lines[3])
            /\ Len(rows) = 2
            /\ RowOfLine(rows[1], lines[1]) /\ RowOfLine(rows[2], lines[3])


\* the user turns of h in which the scan finds a name
NameTurns(h) ==
    {i \in 1..Len(h) :
        /\ h[i].role = "user"
        /\ \E w \in TriggerWords : Contains(lower(h[i].content), w)
        /\ first_name_word(h[i].content) # None}

\* C13, as stated: the name of a saved report is the name found in the
\* earliest user turn that has one; later turns do not replace it.
NameHintIsFirstMatch ==
    (last_export.path # None /\ last_export.path \in DOMAIN files) =>
        LET h == History(last_export.user)
            first == CHOOSE i \in NameTurns(h) : \A j \in NameTurns(h) : i <= j
        IN  NameTurns(h) # {} =>
                files[last_export.path].name = first_name_word(h[first].content)

IsNameToken(word) == IsUpperChar(word[1]) /\ Len(word) > 2 /\ isalpha(word)

\* the first name token of content that comes after the first word holding
\* a trigger word; None when there is none
HintAfterTrigger(content) ==
    LET words == split(content)
        triggers == {i \in 1..Len(words) :
                        \E w \in TriggerWords : Contains(lower(words[i]), w)}
        trigger == CHOOSE i \in triggers : \A j \in triggers : i <= j
        hits == {j \in 1..Len(words) : j > trigger /\ IsNameToken(words[j])}
    IN  IF triggers = {} \/ hits = {} THEN None
        ELSE words[CHOOSE i \in hits : \A j \in hits : i <= j]

\* C14, as stated: when one user turn holds a trigger word, the name of the
\* saved report is the first name token after the trigger word ("Ivan" for
\* "Ucenika zovut Ivan Petrov"), not a token before it or the trigger word.
NameHintFollowsTrigger ==
    (last_export.path # None /\ last_export.path \in DOMAIN files) =>
        LET h == History(last_export.user)
        IN  \A i \in 1..Len(h) :
                (NameTurns(h) = {i}) =>
                    files[last_export.path].name = HintAfterTrigger(h[i].content)


\* C15, as stated: every message sent by send_long_message, its label
\* included, has at most MAX_MESSAGE_LENGTH characters.
MessagesWithinCeiling ==
    \A p \in Slots :
        \A i \in 1..Len(tasks[p].sent) : Len(tasks[p].sent[i]) <= MAX_MESSAGE_LENGTH

\* the messages without their labels, one after the other
RECURSIVE PartsJoined(_, _)
PartsJoined(msgs, i) ==
    IF i > Len(msgs) THEN <<>>
    ELSE SubSeq(msgs[i], Len(part_prefix(i, Len(msgs))) + 1, Len(msgs[i]))
         \o PartsJoined(msgs, i + 1)

\* C16, as stated: when send_long_message has sent the last part of a reply
\* longer than MAX_MESSAGE_LENGTH, the parts sent, labels removed and put
\* one after the other in the order sent, are the reply, character for
\* character.
PartsJoinToReply ==
    [][\A p \in Slots :
          (tasks[p].pc = "send_long_message_sleep" /\ tasks'[p].pc = "idle") =>
              PartsJoined(tasks[p].sent, 1) = tasks[p].text]_vars


\* C17, as stated: a step in which handle_export_excel refuses (the history
\* is empty or holds no final report) writes no file and leaves no task
\* sending a document, and the handler that awaits the send of its refusal
\* ends by returning, with no document sent and no file written.
ExportRefusedCleanly ==
    [][/\ \A u \in Users :
             handle_export_excel_refuse(u) =>
                 /\ files' = files
                 /\ \A p \in Slots :
                       tasks'[p].pc = "send_document" => tasks[p].pc = "send_document"
       /\ \A p \in Slots :
             (tasks[p].pc = "refusal" /\ tasks'[p] # tasks[p]) =>
                 /\ tasks'[p].pc = "idle"
                 /\ files' = files
                 /\ ended' = ended]_vars

\* Idle, AwaitingReport or ReportReady, as the history of u tells
Phase(u) ==
    IF History(u) = <<>> THEN "Idle"
    ELSE IF SignalTurns(History(u)) # {} THEN "ReportReady"
    ELSE "AwaitingReport"

\* C18, as stated: a user who is ReportReady stays ReportReady in every
\* step, or becomes Idle in a step that clears the user's history.
ReadyUntilCleared ==
    [][\A u \in Users :
          Phase(u) = "ReportReady" =>
              \/ Phase(u)' = "ReportReady"
              \/ Phase(u)' = "Idle" /\ ClearStep(u)]_vars

\* C18, amended: a user who is ReportReady stays ReportReady, or becomes
\* Idle in a step that clears the user's history, or becomes
\* AwaitingReport in an append to a full history that evicts the oldest
\* turn, the only one with the signal.
ReadyUntilClearedOrEvicted ==
    [][\A u \in Users :
          Phase(u) = "ReportReady" =>
              \/ Phase(u)' = "ReportReady"
              \/ Phase(u)' = "Idle" /\ ClearStep(u)
              \/ /\ Phase(u)' = "AwaitingReport"
                 /\ Len(History(u)) = MAX_HISTORY_MESSAGES
                 /\ SignalTurns(History(u)) = {1}
                 /\ Len(History(u)') = Len(History(u))
                 /\ SubSeq(History(u)', 1, Len(History(u)) - 1) = Tail(History(u))]_vars

\* a user is ReportReady with a turn appended after the report, in a
\* history from which a turn has been evicted
ReadyUntilClearedOrEvictedWitness ==
    \E u \in Users :
        /\ Phase(u) = "ReportReady"
        /\ \E i \in SignalTurns(History(u)) : i < Len(History(u))
        /\ Len(turns_log[u]) > Len(History(u))

\* the step in which the handler of a voice message fails: the download
\* raises, the conversion fails, or there is no transcription
VoiceFailure(p) ==
    \/ tasks[p].pc = "voice_download" /\ handler_raise(p)
    \/ handle_voice_downloaded(p, FALSE)
    \/ \E failure \in TranscribeFailures : handle_voice_untranscribed(p, failure)

\* C19: the arrival of a voice message and the failure of its transcription
\* change no history; the failing handler awaits the send of the failure
\* message (of the error message when the download raised), and from there
\* it ends without a change of a history and without a completion request,
\* the failure message delivered when its send returns.
VoiceFailureKeepsHistories ==
    [][/\ \A u \in Users : handle_voice(u) => user_conversations' = user_conversations
       /\ \A p \in Slots :
             /\ VoiceFailure(p) =>
                    /\ user_conversations' = user_conversations
                    /\ tasks'[p].pc \in {"failure_answer", "error_answer"}
                    /\ tasks'[p].request = <<>>
             /\ (tasks[p].pc = "failure_answer" /\ tasks'[p] # tasks[p]) =>
                    /\ user_conversations' = user_conversations
                    /\ tasks'[p].pc \in {"idle", "error_answer"}
                    /\ tasks'[p].request = <<>>
                    /\ message_answer_returned(p) => ended' = "untranscribed"]_vars

\* a voice message of a user with a history was answered with the failure
\* message, and no request is in flight
VoiceFailureKeepsHistoriesWitness ==
    /\ ended = "untranscribed"
    /\ \A p \in Slots : tasks[p].pc = "idle"
    /\ \E u \in Users : History(u) # <<>>

\* C20, as stated: no turn handler ends with an exception that leaves it.
NoHandlerRaises == ended # "raised"


\* C23, as stated: with MAX_HISTORY_MESSAGES configured as 0, every user's
\* history is empty in every reachable state (after every add_to_history).
HistoryEmptyAtLimitZero ==
    MAX_HISTORY_MESSAGES = 0 =>
        \A u \in DOMAIN user_conversations : Len(user_conversations[u]) <= 0

\* C24, as stated: every assistant turn appended to a user's history since
\* the user's last clear answers an utterance appended since that clear
\* (turns_log is emptied by a clear, and seq names the utterance).
NoReplyAcrossClear ==
    \A u \in Users :
        \A i \in 1..Len(turns_log[u]) :
            turns_log[u][i].role = "assistant" =>
                \E j \in 1..(i - 1) :
                    /\ turns_log[u][j].role = "user"
                    /\ turns_log[u][j].seq = turns_log[u][i].seq


\* C22: a call of export_to_excel on a history with a final report, whose
\* save succeeds, returns the path of a file that then exists; its sheet
\* holds the title (of the first read of the clock) in row 1, the header
\* in row 2 and the rows of the k
\* lines "<n>. <Title>: <Body>" of the report in rows 3..k+2, in their
\* order, and no other row (k = 0: the title and the header only).
SheetRowsContiguous ==
    [][\A u \in Users, now \in Stamps, later \in Stamps :
          (/\ export_to_excel_call(u, now, later, TRUE)
           /\ History(u) # <<>>
           /\ final_report(History(u)) # None) =>
              LET path == last_export'.path
                  good == SelectSeq(LinesOf(final_report(History(u))), IsPointLine)
                  k == Len(good)
              IN  /\ path # None
                  /\ path \in DOMAIN files'
                  /\ DOMAIN files'[path].sheet = 1..(k + 2)
                  /\ files'[path].sheet[1].A = worksheet_title(files'[path].name, now)
                  /\ files'[path].sheet[2] = [A |-> HEADER_A, B |-> HEADER_B]
                  /\ \A i \in 1..k : RowOfLine(files'[path].sheet[i + 2], good[i])]_vars

\* a saved sheet of four rows for a report of three lines whose second line
\* has no match, titled in one minute and named in the next
SheetRowsContiguousWitness ==
    \E path \in DOMAIN files :
        LET lines == LinesOf(files[path].report)
        IN  /\ Len(lines) = 3
            /\ lines[2] \in BrokenLines
            /\ IsPointLine(lines[1]) /\ IsPointLine(lines[3])
            /\ DOMAIN files[path].sheet = 1..4
            /\ RowOfLine(files[path].sheet[4], lines[3])
            /\ last_export.path = path
            /\ files[path].sheet[1].A = worksheet_title(None, Clock[1])
            /\ path = export_filename(None, last_export.user, Clock[2])

\* a report without a point is saved as the title and the header
SheetOfNoPointsWitness ==
    \E path \in DOMAIN files :
        /\ files[path].rows = <<>>
        /\ DOMAIN files[path].sheet = 1..2
        /\ last_export.path = path


\* a file name made of the user id and the time
IsAnonymousName(f) ==
    \E u \in Users, now \in Stamps : f = export_filename(None, u, now)

\* C21, as stated: two export handlers that each wrote a file without a
\* name hint and have yet to send it hold distinct file names.
AnonymousExportsDistinct ==
    \A p, q \in Slots :
        (/\ p # q
         /\ tasks[p].pc = "send_document" /\ tasks[q].pc = "send_document"
         /\ IsAnonymousName(tasks[p].file) /\ IsAnonymousName(tasks[q].file)) =>
            tasks[p].file # tasks[q].file

\* C25, as stated: the file a handler sends was rendered from the report of
\* the handler's own user, and the file it then removes is not one that a
\* handler of another user has yet to send (no history changes in
\* SpecFiles: the report of a user is the final report of the history).
DocumentIsOwnReport ==
    [][\A p \in Slots :
          handle_export_excel_sent(p) =>
              /\ files[tasks[p].file].report = final_report(History(tasks[p].user))
              /\ \A q \in Slots :
                    (/\ tasks[q].pc = "send_document"
                     /\ tasks[q].user # tasks[p].user) =>
                        tasks[q].file # tasks[p].file]_vars

\* C26, as stated: the export that follows the check and the announcement
\* of handle_export_excel finds a final report, and, when the save
\* succeeds, returns the path of its file.
ExportFindsCheckedReport ==
    [][\A p \in Slots, now \in Stamps, later \in Stamps :
          handle_export_excel_export(p, now, later, TRUE) =>
              /\ last_export'.report # None
              /\ last_export'.path # None]_vars

====
